---------------------------- MODULE Spec2Model ----------------------------
(***************************************************************************)
(* Model of CoinPresolveImpliedFree.cpp: implied_free_action::presolve     *)
(* (the scan that classifies columns as implied free and the loop that     *)
(* eliminates singleton column / row pairs) and                            *)
(* implied_free_action::postsolve (the reverse replay of the Actions).     *)
(*                                                                         *)
(* Numbers.  A double is modelled as <<c, n, d>>: the rational n/d (d > 0, *)
(* lowest terms) times the magnitude of class c,                           *)
(*    c = 0  ordinary values      c = 1  1e20 (large)     c = 2  1e30       *)
(*    c = 3  1e31 (the synthetic infinite contribution)   c = 4  1e35       *)
(*    c = 5  COIN_DBL_MAX                                                   *)
(* A value of a higher class absorbs one of a lower class in a sum, as it  *)
(* does in double arithmetic for the magnitudes used here.  Zero is        *)
(* <<0, 0, 1>>.  The tolerances of the code (tol, ZTOLDP, 1e-12, 1e-5,     *)
(* ztoldj, ztolzb) are smaller than the distance of any two values the     *)
(* model computes, so a comparison up to a tolerance is written as the     *)
(* exact comparison, and |x| > 1e8 never holds of an ordinary value.       *)
(***************************************************************************)
EXTENDS Integers, Sequences, FiniteSets, TLC

Abs(i) == IF i < 0 THEN -i ELSE i

RECURSIVE GCD(_, _)
GCD(a, b) == IF b = 0 THEN a ELSE GCD(b, a % b)

Norm(c, n, d) ==
  IF n = 0 THEN <<0, 0, 1>>
  ELSE LET g == GCD(Abs(n), Abs(d))
           s == IF d < 0 THEN -1 ELSE 1
       IN  <<c, (s * n) \div g, (s * d) \div g>>

Num(i) == <<0, i, 1>>
Zero == <<0, 0, 1>>

NNeg(x) == <<x[1], -x[2], x[3]>>

NAdd(x, y) ==
  IF x[1] = y[1] THEN Norm(x[1], x[2] * y[3] + y[2] * x[3], x[3] * y[3])
  ELSE IF x[2] = 0 THEN y
  ELSE IF y[2] = 0 THEN x
  ELSE IF x[1] > y[1] THEN x ELSE y

NSub(x, y) == NAdd(x, NNeg(y))

NMul(x, y) ==
  Norm(IF x[1] > y[1] THEN x[1] ELSE y[1], x[2] * y[2], x[3] * y[3])

\* x / y for an ordinary y # 0
NDiv(x, y) == Norm(x[1], x[2] * y[3], x[3] * y[2])

NLt(x, y) ==
  IF x[1] = y[1] THEN x[2] * y[3] < y[2] * x[3]
  ELSE IF x[2] = 0 THEN y[2] > 0
  ELSE IF y[2] = 0 THEN x[2] < 0
  ELSE IF x[1] > y[1] THEN x[2] < 0
  ELSE y[2] > 0

NLe(x, y) == ~NLt(y, x)
NMax(x, y) == IF NLt(x, y) THEN y ELSE x
NMin(x, y) == IF NLt(y, x) THEN y ELSE x
NAbs(x) == <<x[1], Abs(x[2]), x[3]>>
IsPos(x) == x[2] > 0
IsNeg(x) == x[2] < 0

\* double large=1.0e20
Large == <<1, 1, 1>>
\* a bound of 1e30, infinite by the 1e20 convention but not COIN_DBL_MAX
Inf30 == <<2, 1, 1>>
\* k * 1.0e31
E31(k) == IF k = 0 THEN Zero ELSE <<3, k, 1>>
\* COIN_DBL_MAX, which is also PRESOLVE_INF
DblMax == <<5, 1, 1>>

-----------------------------------------------------------------------------
(* The problem dimensions of the model. *)
Rows == 1 .. 3
Cols == 1 .. 3
NoRow == 0          \* the code's -1: no row

VARIABLES
  pc,            \* "scan", "elim", "finish", "solve", "post", "done", "abort"
  look,          \* colsToDo_ (or 1..ncols when fill_level < 0)
  fill_level,
  iLook,         \* loop index, 1-based
  colmaj,        \* column-major storage: colmaj[j] = << <<row, coeff>>, ... >>
  rowmaj,        \* row-major storage: rowmaj[r] = << <<col, coeff>>, ... >>
  hinrow,        \* hinrow[r]; the row-major entries of r are rowmaj[r][1..hinrow[r]]
  clo, cup, rlo, rup, cost,
  integerType,
  implied_free,  \* implied_free[j] = defining row or NoRow
  infiniteUp,    \* >= 0 count, -1 not computed, -2 singleton row, -3 give up
  infiniteDown, maxUp, maxDown,
  status_,       \* prob->status_ (bit 1 = infeasible)
  actions,       \* the Actions of this pass, in the order appended
  dobias,        \* the objective bias (change_bias)
  isolated_row,
  sol, acts, rcosts, rowduals, colstat, rowstat,
  f,             \* postsolve: index of the Action to replay next
  orig,          \* the problem as handed to presolve
  redObj,        \* the objective of the reduced problem at the solution supplied
  next           \* the chain of presolve actions, the newest last

vars == <<pc, look, fill_level, iLook, colmaj, rowmaj, hinrow, clo, cup, rlo, rup,
          cost, integerType, implied_free, infiniteUp, infiniteDown, maxUp,
          maxDown, status_, actions, dobias, isolated_row, sol, acts, rcosts,
          rowduals, colstat, rowstat, f, orig, redObj, next>>

hincol(j) == Len(colmaj[j])

-----------------------------------------------------------------------------
(* Row activity: lines 152-222 *)

\* one term of the loop over the row (lines 160-186)
ActTerm(acc, e) ==
  LET iColumn == e[1]
      value == e[2]
  IN IF IsPos(value) THEN
       [infiniteUpper |-> IF NLe(Large, cup[iColumn]) THEN acc.infiniteUpper + 1
                          ELSE acc.infiniteUpper,
        maximumUp |-> IF NLe(Large, cup[iColumn]) THEN acc.maximumUp
                      ELSE NAdd(acc.maximumUp, NMul(cup[iColumn], value)),
        infiniteLower |-> IF NLe(clo[iColumn], NNeg(Large)) THEN acc.infiniteLower + 1
                          ELSE acc.infiniteLower,
        maximumDown |-> IF NLe(clo[iColumn], NNeg(Large)) THEN acc.maximumDown
                        ELSE NAdd(acc.maximumDown, NMul(clo[iColumn], value))]
     ELSE IF IsNeg(value) THEN
       [infiniteLower |-> IF NLe(Large, cup[iColumn]) THEN acc.infiniteLower + 1
                          ELSE acc.infiniteLower,
        maximumDown |-> IF NLe(Large, cup[iColumn]) THEN acc.maximumDown
                        ELSE NAdd(acc.maximumDown, NMul(cup[iColumn], value)),
        infiniteUpper |-> IF NLe(clo[iColumn], NNeg(Large)) THEN acc.infiniteUpper + 1
                          ELSE acc.infiniteUpper,
        maximumUp |-> IF NLe(clo[iColumn], NNeg(Large)) THEN acc.maximumUp
                      ELSE NAdd(acc.maximumUp, NMul(clo[iColumn], value))]
     ELSE acc

RECURSIVE ActFold(_, _, _)
ActFold(ents, n, k) ==
  IF k > n
  THEN [infiniteUpper |-> 0, infiniteLower |-> 0, maximumUp |-> Zero, maximumDown |-> Zero]
  ELSE ActTerm(ActFold(ents, n, k + 1), ents[k])

RowActivity(row) == ActFold(rowmaj[row], hinrow[row], 1)

\* lines 187-222: "redundant", "infeasible" or "cache"
ClassOf(row, maxUpx, maxDownx) ==
  IF NLe(maxUpx, rup[row]) /\ NLe(rlo[row], maxDownx) THEN "redundant"
  ELSE IF NLt(maxUpx, rlo[row]) THEN "infeasible"
  ELSE IF NLt(rup[row], maxDownx) THEN "infeasible"
  ELSE "cache"

\* lines 187-188: the summary a of the row with its synthetic magnitudes
RowClassOf(row, a) ==
  ClassOf(row, NAdd(a.maximumUp, E31(a.infiniteUpper)),
               NSub(a.maximumDown, E31(a.infiniteLower)))

RowClass(row) == RowClassOf(row, RowActivity(row))

IsEquality(row) == rlo[row] = rup[row]

-----------------------------------------------------------------------------
(* Bound implied for column j by one row: lines 224-363.  s holds the      *)
(* locals of the block: low, high, infiniteUpper, infiniteLower, maximumUp, *)
(* maximumDown, nowLower, nowUpper; tight records that a bound of j was    *)
(* tightened.                                                              *)

\* lines 237-267 with a count of unbounded terms treated as the term of j
\* alone whatever its value
PosLowerAnyCount(s, lower, value) ==
  LET newBound ==
        IF s.infiniteUpper = 0
        THEN NAdd(s.nowUpper, NDiv(NSub(lower, s.maximumUp), value))
        ELSE NDiv(NSub(lower, s.maximumUp), value)
      now == IF NLt(s.nowLower, NNeg(Large)) THEN Zero ELSE s.nowLower
      s1 == IF NLt(s.nowLower, newBound)
            THEN [s EXCEPT !.infiniteLower = IF NLt(s.nowLower, NNeg(Large))
                                             THEN @ - 1 ELSE @,
                           !.maximumDown = NAdd(@, NMul(NSub(newBound, now), value)),
                           !.nowLower = newBound,
                           !.tight = TRUE]
            ELSE s
  IN [s1 EXCEPT !.low = NMax(@, newBound)]

\* lines 237-267: value > 0, the row has a lower bound
PosLower(s, lower, value) ==
  LET newBound ==
        IF s.infiniteUpper = 0
        THEN NAdd(s.nowUpper, NDiv(NSub(lower, s.maximumUp), value))
        ELSE IF s.infiniteUpper = 1 /\ NLt(Large, s.nowUpper)
        THEN NDiv(NSub(lower, s.maximumUp), value)
        ELSE NNeg(DblMax)
      now == IF NLt(s.nowLower, NNeg(Large)) THEN Zero ELSE s.nowLower
      s1 == IF NLt(s.nowLower, newBound)
            THEN [s EXCEPT !.infiniteLower = IF NLt(s.nowLower, NNeg(Large))
                                             THEN @ - 1 ELSE @,
                           !.maximumDown = NAdd(@, NMul(NSub(newBound, now), value)),
                           !.nowLower = newBound,
                           !.tight = TRUE]
            ELSE s
  IN [s1 EXCEPT !.low = NMax(@, newBound)]

\* lines 268-298: value > 0, the row has an upper bound
PosUpper(s, upper, value) ==
  LET newBound ==
        IF s.infiniteLower = 0
        THEN NAdd(s.nowLower, NDiv(NSub(upper, s.maximumDown), value))
        ELSE IF s.infiniteLower = 1 /\ NLt(s.nowLower, NNeg(Large))
        THEN NDiv(NSub(upper, s.maximumDown), value)
        ELSE DblMax
      now == IF NLt(Large, s.nowUpper) THEN Zero ELSE s.nowUpper
      s1 == IF NLt(newBound, s.nowUpper)
            THEN [s EXCEPT !.infiniteUpper = IF NLt(Large, s.nowUpper)
                                             THEN @ - 1 ELSE @,
                           !.maximumUp = NAdd(@, NMul(NSub(newBound, now), value)),
                           !.nowUpper = newBound,
                           !.tight = TRUE]
            ELSE s
  IN [s1 EXCEPT !.high = NMin(@, newBound)]

\* lines 301-331: value < 0, the row has a lower bound
NegLower(s, lower, value) ==
  LET newBound ==
        IF s.infiniteUpper = 0
        THEN NAdd(s.nowLower, NDiv(NSub(lower, s.maximumUp), value))
        ELSE IF s.infiniteUpper = 1 /\ NLt(s.nowLower, NNeg(Large))
        THEN NDiv(NSub(lower, s.maximumUp), value)
        ELSE DblMax
      now == IF NLt(Large, s.nowUpper) THEN Zero ELSE s.nowUpper
      s1 == IF NLt(newBound, s.nowUpper)
            THEN [s EXCEPT !.infiniteLower = IF NLt(Large, s.nowUpper)
                                             THEN @ - 1 ELSE @,
                           !.maximumDown = NAdd(@, NMul(NSub(newBound, now), value)),
                           !.nowUpper = newBound,
                           !.tight = TRUE]
            ELSE s
  IN [s1 EXCEPT !.high = NMin(@, newBound)]

\* lines 332-362: value < 0, the row has an upper bound
NegUpper(s, upper, value) ==
  LET newBound ==
        IF s.infiniteLower = 0
        THEN NAdd(s.nowUpper, NDiv(NSub(upper, s.maximumDown), value))
        ELSE IF s.infiniteLower = 1 /\ NLt(Large, s.nowUpper)
        THEN NDiv(NSub(upper, s.maximumDown), value)
        ELSE NNeg(DblMax)
      now == IF NLt(s.nowLower, NNeg(Large)) THEN Zero ELSE s.nowLower
      s1 == IF NLt(s.nowLower, newBound)
            THEN [s EXCEPT !.infiniteUpper = IF NLt(s.nowLower, NNeg(Large))
                                             THEN @ - 1 ELSE @,
                           !.maximumUp = NAdd(@, NMul(NSub(newBound, now), value)),
                           !.nowLower = newBound,
                           !.tight = TRUE]
            ELSE s
  IN [s1 EXCEPT !.low = NMax(@, newBound)]

\* lines 224-363 for one row of column j, starting from the cached summary
\* of the row (iU, iD, mU, mD are the four cache arrays)
BoundStep(j, row, value, low, high, iU, iD, mU, mD) ==
  LET lower == rlo[row]
      upper == rup[row]
      s0 == [low |-> low, high |-> high,
             infiniteUpper |-> iU[row], infiniteLower |-> iD[row],
             maximumUp |-> mU[row], maximumDown |-> mD[row],
             nowLower |-> clo[j], nowUpper |-> cup[j], tight |-> FALSE]
  IN IF IsPos(value)
     THEN LET s1 == IF NLt(NNeg(Large), lower) THEN PosLower(s0, lower, value) ELSE s0
          IN  IF NLt(upper, Large) THEN PosUpper(s1, upper, value) ELSE s1
     ELSE LET s1 == IF NLt(NNeg(Large), lower) THEN NegLower(s0, lower, value) ELSE s0
          IN  IF NLt(upper, Large) THEN NegUpper(s1, upper, value) ELSE s1

-----------------------------------------------------------------------------
(* The scan of a column with 2 or 3 nonzeros: lines 119-398 *)

\* lines 123-141: is some row of j an equality row (possible), is some row
\* of j a singleton row (singleton), and the largest |coefficient| of j
RECURSIVE PreScan(_, _)
PreScan(j, k) ==
  IF k > hincol(j)
  THEN [possible |-> FALSE, singleton |-> FALSE, largestElement |-> Zero]
  ELSE LET r == PreScan(j, k + 1)
           row == colmaj[j][k][1]
           coeffj == colmaj[j][k][2]
       IN IF hinrow[row] > 1
          THEN [possible |-> r.possible \/ (IsEquality(row) /\ coeffj # Zero),
                singleton |-> r.singleton,
                largestElement |-> NMax(r.largestElement, NAbs(coeffj))]
          ELSE [r EXCEPT !.singleton = TRUE]

\* lines 150-222: the summary of row is computed on first use and the row
\* classified; an infeasible row sets the status bit and leaves the walk
ComputeRowSet(w, row, a, c) ==
  IF c = "redundant" THEN [w EXCEPT !.iU[row] = -3]
  ELSE IF c = "infeasible"
  THEN [w EXCEPT !.iU[row] = -3, !.status = 1, !.stop = TRUE, !.infeas = TRUE]
  ELSE [w EXCEPT !.iU[row] = a.infiniteUpper, !.iD[row] = a.infiniteLower,
                 !.mU[row] = a.maximumUp, !.mD[row] = a.maximumDown]

ComputeRowOf(w, row, a) == ComputeRowSet(w, row, a, RowClassOf(row, a))

ComputeRow(w, row) == ComputeRowOf(w, row, RowActivity(row))

\* lines 364-369: a row in the give-up state ends the walk
GiveUp(w) ==
  [w EXCEPT !.high = DblMax, !.low = NNeg(DblMax), !.stop = TRUE, !.gaveUp = TRUE]

\* lines 224-363: the locals of the block are not stored back in the cache
AfterBound(w, row, s) ==
  [w EXCEPT !.low = s.low, !.high = s.high, !.locals = Append(@, <<row, s>>)]

\* lines 146-371: the walk over the rows of j from position k
RECURSIVE Walk(_, _, _)
\* lines 224-369 for the row at position k, its summary being in w1
WalkRow(j, k, w1, row, coeffj) ==
  IF w1.infeas THEN w1
  ELSE IF w1.iU[row] >= 0
  THEN Walk(j, k + 1,
            AfterBound(w1, row,
                       BoundStep(j, row, coeffj, w1.low, w1.high,
                                 w1.iU, w1.iD, w1.mU, w1.mD)))
  ELSE IF w1.iU[row] = -3 THEN GiveUp(w1)
  ELSE Walk(j, k + 1, w1)

Walk(j, k, w) ==
  IF k > hincol(j) \/ w.stop THEN w
  ELSE IF colmaj[j][k][2] = Zero THEN Walk(j, k + 1, w)
  ELSE WalkRow(j, k,
               IF w.iU[colmaj[j][k][1]] = -1 THEN ComputeRow(w, colmaj[j][k][1]) ELSE w,
               colmaj[j][k][1], colmaj[j][k][2])

WalkStart ==
  [low |-> NNeg(DblMax), high |-> DblMax, iU |-> infiniteUp, iD |-> infiniteDown,
   mU |-> maxUp, mD |-> maxDown, status |-> status_, stop |-> FALSE,
   infeas |-> FALSE, gaveUp |-> FALSE, locals |-> <<>>]

WalkColumn(j) == Walk(j, 1, WalkStart)

\* the test of line 372 with the comparisons turned round: the declared
\* bounds inside the implied range
AcceptsReversed(j, low, high) == NLe(low, clo[j]) /\ NLe(cup[j], high)

\* line 372: both column bounds implied by the constraints of the problem
Accepts(j, low, high) == NLe(clo[j], low) /\ NLe(high, cup[j])

\* the test of lines 382-383 without the 10% of the largest coefficient
EligibleAnyCoeff(j, k, largestElement) ==
  /\ IsEquality(colmaj[j][k][1])
  /\ colmaj[j][k][2] # Zero

\* lines 382-383: row may define j
Eligible(j, k, largestElement) ==
  /\ IsEquality(colmaj[j][k][1])
  /\ NLt(NMul(largestElement, <<0, 1, 10>>), NAbs(colmaj[j][k][2]))

\* lines 377-389: the first eligible row with the fewest nonzeros
RECURSIVE SelectRow(_, _, _, _, _)
SelectRow(j, k, largestElement, krow, ninrow) ==
  IF k > hincol(j) THEN krow
  ELSE LET row == colmaj[j][k][1]
       IN IF Eligible(j, k, largestElement) /\ hinrow[row] < ninrow
          THEN SelectRow(j, k + 1, largestElement, row, hinrow[row])
          ELSE SelectRow(j, k + 1, largestElement, krow, ninrow)

\* lines 372-397: the defining row of j, or NoRow
DefiningRow(j, low, high) ==
  IF Accepts(j, low, high)
  THEN SelectRow(j, 1, PreScan(j, 1).largestElement, NoRow, Cardinality(Cols) + 1)
  ELSE NoRow

-----------------------------------------------------------------------------
(* The scan of a singleton column: lines 399-446 *)

RECURSIVE WithoutCol(_, _, _)
WithoutCol(ents, n, j) ==
  IF n = 0 THEN <<>>
  ELSE IF ents[n][1] = j THEN WithoutCol(ents, n - 1, j)
  ELSE Append(WithoutCol(ents, n - 1, j), ents[n])

\* implied_bounds(rowels, clo, cup, hcol, krs, kre, &maxup, &maxdown, j,
\* rlo, rup, &ilow, &iup): the activity range of the row, and the bounds the
\* row and the other columns imply for column j with coefficient coeffj
ActOf(ents) == ActFold(ents, Len(ents), 1)

\* all: the summary of the whole row; oth: that of the row without column j
ImpliedFrom(row, coeffj, all, oth) ==
  LET fromLo == IF NLt(NNeg(Large), rlo[row]) /\ oth.infiniteUpper = 0
                THEN <<TRUE, NDiv(NSub(rlo[row], oth.maximumUp), coeffj)>>
                ELSE <<FALSE, Zero>>
      fromUp == IF NLt(rup[row], Large) /\ oth.infiniteLower = 0
                THEN <<TRUE, NDiv(NSub(rup[row], oth.maximumDown), coeffj)>>
                ELSE <<FALSE, Zero>>
  IN [maxup |-> IF all.infiniteUpper > 0 THEN DblMax ELSE all.maximumUp,
      maxdown |-> IF all.infiniteLower > 0 THEN NNeg(DblMax) ELSE all.maximumDown,
      ilow |-> IF IsPos(coeffj)
               THEN (IF fromLo[1] THEN fromLo[2] ELSE NNeg(DblMax))
               ELSE (IF fromUp[1] THEN fromUp[2] ELSE NNeg(DblMax)),
      iup |-> IF IsPos(coeffj)
              THEN (IF fromUp[1] THEN fromUp[2] ELSE DblMax)
              ELSE (IF fromLo[1] THEN fromLo[2] ELSE DblMax)]

implied_bounds(row, j, coeffj) ==
  ImpliedFrom(row, coeffj, RowActivity(row),
              ActOf(WithoutCol(rowmaj[row], hinrow[row], j)))

\* lines 404-405: the singleton column j is examined
SingletonTried(j) ==
  LET row == colmaj[j][1][1]
      coeffj == colmaj[j][1][2]
  IN /\ (cost[j] = Zero \/ rlo[row] = rup[row])
     /\ hinrow[row] > 1
     /\ coeffj # Zero
     /\ infiniteUp[row] # -3

\* lines 417 and 427: the row cannot reach one of its bounds
InfeasibleBy(row, b) ==
  \/ NLt(b.maxup, DblMax) /\ NLt(b.maxup, rlo[row])
  \/ NLt(NNeg(DblMax), b.maxdown) /\ NLt(rup[row], b.maxdown)

SingletonInfeasible(j) ==
  InfeasibleBy(colmaj[j][1][1], implied_bounds(colmaj[j][1][1], j, colmaj[j][1][2]))

\* line 437
AcceptsBy(j, b) == NLe(clo[j], b.ilow) /\ NLe(b.iup, cup[j])

SingletonAccepts(j) ==
  AcceptsBy(j, implied_bounds(colmaj[j][1][1], j, colmaj[j][1][2]))

-----------------------------------------------------------------------------
(* The scan loop: lines 116-448 *)

Candidate(j) == hincol(j) <= 3 /\ ~integerType[j]

\* the loop goes on to the next worklist entry, or ends
NextLook(phaseAfter) ==
  IF iLook < Len(look)
  THEN iLook' = iLook + 1 /\ pc' = pc
  ELSE iLook' = 1 /\ pc' = phaseAfter

\* the loop is left by break
BreakLook(phaseAfter) == iLook' = 1 /\ pc' = phaseAfter

problemVars == <<colmaj, rowmaj, hinrow, clo, cup, rlo, rup, cost, integerType>>
cacheVars == <<infiniteUp, infiniteDown, maxUp, maxDown>>
postVars == <<sol, acts, rcosts, rowduals, colstat, rowstat, f>>
fixedVars == <<look, fill_level, orig, redObj, next>>

\* the rows of j are walked: lines 142-398
WalksRows(j) ==
  /\ Candidate(j) /\ hincol(j) > 1
  /\ PreScan(j, 1).possible /\ ~PreScan(j, 1).singleton

\* lines 390-396 and the stores of the walk
ScanMultiSet(j, w, krow) ==
  /\ implied_free' = IF krow # NoRow THEN [implied_free EXCEPT ![j] = krow]
                     ELSE implied_free
  /\ infiniteUp' = IF krow # NoRow THEN [w.iU EXCEPT ![krow] = -3] ELSE w.iU
  /\ infiniteDown' = w.iD
  /\ maxUp' = w.mU
  /\ maxDown' = w.mD
  /\ status_' = w.status

ScanMultiOf(j, w) == ScanMultiSet(j, w, DefiningRow(j, w.low, w.high))

ScanMulti ==
  /\ pc = "scan"
  /\ WalksRows(look[iLook])
  /\ ScanMultiOf(look[iLook], WalkColumn(look[iLook]))
  /\ NextLook("elim")
  /\ UNCHANGED <<problemVars, postVars, fixedVars, actions, dobias, isolated_row>>

ScanSingleton ==
  /\ pc = "scan"
  /\ LET j == look[iLook]
         row == colmaj[j][1][1]
     IN /\ Candidate(j) /\ hincol(j) = 1
        /\ IF SingletonTried(j) /\ SingletonInfeasible(j)
           THEN /\ status_' = 1
                /\ BreakLook("elim")
                /\ UNCHANGED <<implied_free, infiniteUp>>
           ELSE /\ IF SingletonTried(j) /\ SingletonAccepts(j)
                   THEN /\ implied_free' = [implied_free EXCEPT ![j] = row]
                        /\ infiniteUp' = [infiniteUp EXCEPT ![row] = -3]
                   ELSE UNCHANGED <<implied_free, infiniteUp>>
                /\ NextLook("elim")
                /\ UNCHANGED status_
  /\ UNCHANGED <<problemVars, postVars, fixedVars, actions, dobias, isolated_row,
                 infiniteDown, maxUp, maxDown>>

\* the column is integer, has more than 3 nonzeros or none, or has 2-3
\* nonzeros and no equality row or a singleton row
ScanSkip ==
  /\ pc = "scan"
  /\ LET j == look[iLook]
     IN \/ ~Candidate(j)
        \/ hincol(j) = 0
        \/ hincol(j) > 1 /\ ~WalksRows(j)
  /\ NextLook("elim")
  /\ UNCHANGED <<problemVars, postVars, fixedVars, cacheVars, implied_free, status_,
                 actions, dobias, isolated_row>>

-----------------------------------------------------------------------------
(* The elimination loop: lines 462-561 *)

RowEntries(row) == SubSeq(rowmaj[row], 1, hinrow[row])

RECURSIVE SumHincol(_, _)
SumHincol(ents, n) ==
  IF n = 0 THEN 0 ELSE hincol(ents[n][1]) + SumHincol(ents, n - 1)

\* lines 474-482: no column of the row has an entry in another row
IsolatedRow(row) == SumHincol(rowmaj[row], hinrow[row]) = hinrow[row]

\* line 464
Easy(j) == hincol(j) = 1 /\ implied_free[j] # NoRow

\* line 484
nonzero_cost(j, row) == cost[j] # Zero /\ IsEquality(row)

RECURSIVE FindRow(_, _, _)
FindRow(ents, row, k) ==
  IF k > Len(ents) THEN 0
  ELSE IF ents[k][1] = row THEN k ELSE FindRow(ents, row, k + 1)

\* presolve_delete_from_row(jcol, row, mcstrt, hincol, hrow, colels): the
\* entry of row leaves column jcol, the last entry of the column takes its
\* place
presolve_delete_from_row(ents, row) ==
  LET k == FindRow(ents, row, 1)
      n == Len(ents)
  IN IF k = 0 THEN ents
     ELSE IF k = n THEN SubSeq(ents, 1, n - 1)
     ELSE [i \in 1 .. (n - 1) |-> IF i = k THEN ents[n] ELSE ents[i]]

InRow(row, jcol) == \E k \in 1 .. hinrow[row] : rowmaj[row][k][1] = jcol
CoeffInRow(row, jcol) ==
  LET k == CHOOSE k \in 1 .. hinrow[row] : rowmaj[row][k][1] = jcol
  IN  rowmaj[row][k][2]

\* lines 489-503 and 514: the Action of (row, j)
NewAction(j, row) ==
  [row |-> row, col |-> j,
   clo |-> clo[j], cup |-> cup[j], rlo |-> rlo[row], rup |-> rup[row],
   ninrow |-> hinrow[row],
   rowels |-> [k \in 1 .. hinrow[row] |-> rowmaj[row][k][2]],
   rowcols |-> [k \in 1 .. hinrow[row] |-> rowmaj[row][k][1]],
   hasCosts |-> nonzero_cost(j, row),
   costs |-> IF nonzero_cost(j, row)
             THEN [k \in 1 .. hinrow[row] |-> cost[rowmaj[row][k][1]]]
             ELSE <<>>]

\* line 527: the cost of jcol after the cost of j is spread over the row
SpreadCost(jcol, j, row, coeffj) ==
  NAdd(cost[jcol], NMul(cost[j], NDiv(NNeg(CoeffInRow(row, jcol)), coeffj)))

\* lines 505-541
CostAfter(j, row, coeffj) ==
  IF nonzero_cost(j, row)
  THEN [jcol \in Cols |->
          IF jcol = j THEN Zero
          ELSE IF InRow(row, jcol) THEN SpreadCost(jcol, j, row, coeffj)
          ELSE cost[jcol]]
  ELSE cost

\* line 538: prob->change_bias(costj * rhs / coeffj)
BiasAfter(j, row, coeffj) ==
  IF nonzero_cost(j, row)
  THEN NAdd(dobias, NDiv(NMul(cost[j], rlo[row]), coeffj))
  ELSE dobias

scanVars == <<cacheVars, status_>>

\* lines 484-559 for column j, its row and its coefficient
EliminateSet(j, row, coeffj) ==
  /\ actions' = Append(actions, NewAction(j, row))
  /\ cost' = CostAfter(j, row, coeffj)
  /\ dobias' = BiasAfter(j, row, coeffj)
  /\ colmaj' = [jcol \in Cols |->
                  IF InRow(row, jcol)
                  THEN presolve_delete_from_row(colmaj[jcol], row)
                  ELSE colmaj[jcol]]
  /\ hinrow' = [hinrow EXCEPT ![row] = 0]
  /\ rlo' = [rlo EXCEPT ![row] = Zero]
  /\ rup' = [rup EXCEPT ![row] = Zero]
  /\ implied_free' = [implied_free EXCEPT ![j] = NoRow]

Eliminate ==
  /\ pc = "elim"
  /\ Easy(look[iLook])
  /\ ~IsolatedRow(colmaj[look[iLook]][1][1])
  /\ EliminateSet(look[iLook], colmaj[look[iLook]][1][1], colmaj[look[iLook]][1][2])
  /\ NextLook("finish")
  /\ UNCHANGED <<rowmaj, clo, cup, integerType, scanVars, postVars, fixedVars,
                 isolated_row>>

\* lines 478-481: an isolated row ends the loop
ElimIsolated ==
  /\ pc = "elim"
  /\ LET j == look[iLook]
         row == colmaj[j][1][1]
     IN /\ Easy(j)
        /\ IsolatedRow(row)
        /\ isolated_row' = row
  /\ BreakLook("finish")
  /\ UNCHANGED <<problemVars, scanVars, postVars, fixedVars, implied_free, actions,
                 dobias>>

ElimSkip ==
  /\ pc = "elim"
  /\ ~Easy(look[iLook])
  /\ NextLook("finish")
  /\ UNCHANGED <<problemVars, scanVars, postVars, fixedVars, implied_free, actions,
                 dobias, isolated_row>>

\* the problem arrays the passes called at the end of presolve work on
Prob ==
  [colmaj |-> colmaj, rowmaj |-> rowmaj, hinrow |-> hinrow, rlo |-> rlo,
   rup |-> rup, cost |-> cost, dobias |-> dobias]

\* lines 564-571: next = new implied_free_action(nactions, actions1, next)
ChainWithActions ==
  IF Len(actions) > 0
  THEN Append(next, [name |-> "implied_free_action", saved |-> <<>>])
  ELSE next

\* isolated_constraint_action::presolve(prob, isolated_row, next): the
\* handler may fail (it returns no action and the problem is as it was), or
\* it takes the row out of the problem and returns its own action, which
\* holds what its postsolve puts back
isolated_constraint_action_presolve(p, row, nxt) ==
  { [prob |-> p, next |-> nxt],
    [prob |-> [p EXCEPT !.colmaj = [c \in Cols |->
                                      presolve_delete_from_row(p.colmaj[c], row)],
                        !.hinrow[row] = 0,
                        !.rlo[row] = Zero,
                        !.rup[row] = Zero],
     next |-> Append(nxt, [name |-> "isolated_constraint_action", saved |-> p])] }

\* the coefficient of column c in row of problem p, 0.0 when it has none
CoeffIn(p, row, c) ==
  IF \E k \in 1 .. p.hinrow[row] : p.rowmaj[row][k][1] = c
  THEN p.rowmaj[row][CHOOSE k \in 1 .. p.hinrow[row] : p.rowmaj[row][k][1] = c][2]
  ELSE Zero

\* the columns the substitution pass can take: classified implied free by a
\* row that is still in the problem, with more than one entry left
SubstCols(p, implied) ==
  { j \in Cols : /\ implied[j] # NoRow
                 /\ Len(p.colmaj[j]) > 1
                 /\ p.rlo[implied[j]] = p.rup[implied[j]]
                 /\ CoeffIn(p, implied[j], j) # Zero }

\* the coefficient of c in row s after x_j = (rhs - sum of the others of row
\* r) / a is put in the place of x_j
SubstCoeff(p, j, r, s, c) ==
  IF s = r \/ c = j THEN Zero
  ELSE NSub(CoeffIn(p, s, c),
            NMul(NDiv(CoeffIn(p, s, j), CoeffIn(p, r, j)), CoeffIn(p, r, c)))

\* a bound of row s after the substitution
SubstBound(p, j, r, s, bound) ==
  IF s = r THEN Zero
  ELSE IF CoeffIn(p, s, j) = Zero THEN bound
  ELSE NSub(bound, NMul(NDiv(CoeffIn(p, s, j), CoeffIn(p, r, j)), p.rlo[r]))

\* the entries of a row (column) from the coefficients m[s][c], in index order
EntriesOfRow(m, s, cs) == [k \in 1 .. Len(cs) |-> <<cs[k], m[s][cs[k]]>>]
EntriesOfCol(m, c, rs) == [k \in 1 .. Len(rs) |-> <<rs[k], m[rs[k]][c]>>]

SubstMatrix(p, m, j, r) ==
  [p EXCEPT
     !.rowmaj = [s \in Rows |->
                   IF CoeffIn(p, s, j) = Zero THEN p.rowmaj[s]
                   ELSE EntriesOfRow(m, s, SelectSeq(<<1, 2, 3>>,
                                                     LAMBDA c : m[s][c] # Zero))],
     !.hinrow = [s \in Rows |->
                   IF CoeffIn(p, s, j) = Zero THEN p.hinrow[s]
                   ELSE Len(SelectSeq(<<1, 2, 3>>, LAMBDA c : m[s][c] # Zero))],
     !.colmaj = [c \in Cols |->
                   IF c # j /\ CoeffIn(p, r, c) = Zero THEN p.colmaj[c]
                   ELSE EntriesOfCol(m, c, SelectSeq(<<1, 2, 3>>,
                                                     LAMBDA s : m[s][c] # Zero))],
     !.rlo = [s \in Rows |-> SubstBound(p, j, r, s, p.rlo[s])],
     !.rup = [s \in Rows |-> SubstBound(p, j, r, s, p.rup[s])],
     !.cost = [c \in Cols |->
                 IF c = j THEN Zero
                 ELSE NSub(p.cost[c],
                           NMul(p.cost[j],
                                NDiv(CoeffIn(p, r, c), CoeffIn(p, r, j))))],
     !.dobias = NAdd(p.dobias,
                     NDiv(NMul(p.cost[j], p.rlo[r]), CoeffIn(p, r, j)))]

\* column j is substituted out of problem p by its row r
Substituted(p, j, r) ==
  SubstMatrix(p, [s \in Rows |-> [c \in Cols |-> SubstCoeff(p, j, r, s, c)]], j, r)

\* subst_constraint_action::presolve(prob, implied_free, next, fill_level):
\* the pass substitutes a column classified implied free out of the problem,
\* or finds none it can take within its fill budget and returns next as it is
subst_constraint_action_presolve(p, implied, nxt, fill) ==
  { [prob |-> p, next |-> nxt] } \cup
  { [prob |-> Substituted(p, j, implied[j]),
     next |-> Append(nxt, [name |-> "subst_constraint_action", saved |-> p])] :
       j \in SubstCols(p, implied) }

\* lines 574-579: the isolated row goes to isolated_constraint_action
IsolatedStep(p, nxt) ==
  IF isolated_row # NoRow
  THEN isolated_constraint_action_presolve(p, isolated_row, nxt)
  ELSE { [prob |-> p, next |-> nxt] }

\* lines 580-583: when fill_level is not 0 implied_free goes to
\* subst_constraint_action
SubstStep(o) ==
  IF fill_level # 0
  THEN subst_constraint_action_presolve(o.prob, implied_free, o.next, fill_level)
  ELSE { o }

\* the problem and the chain as the passes called leave them
Returned(o) ==
  /\ colmaj' = o.prob.colmaj
  /\ rowmaj' = o.prob.rowmaj
  /\ hinrow' = o.prob.hinrow
  /\ rlo' = o.prob.rlo
  /\ rup' = o.prob.rup
  /\ cost' = o.prob.cost
  /\ dobias' = o.prob.dobias
  /\ next' = o.next

\* lines 563-586: the Actions become an implied_free_action when there is
\* one, the isolated row goes to isolated_constraint_action and, when
\* fill_level is not 0, implied_free goes to subst_constraint_action
FinishPresolve ==
  /\ pc = "finish"
  /\ \E o1 \in IsolatedStep(Prob, ChainWithActions) :
        \E o2 \in SubstStep(o1) : Returned(o2)
  /\ pc' = IF Len(actions) > 0 THEN "solve" ELSE "done"
  /\ UNCHANGED <<iLook, clo, cup, integerType, scanVars, postVars, look,
                 fill_level, orig, redObj, implied_free, actions, isolated_row>>

\* the actions appended to the chain after the implied_free_action are undone
\* first, the newest first: each puts back the problem it had found
UndoLater ==
  /\ pc = "solve"
  /\ Len(next) > 0
  /\ next[Len(next)].name # "implied_free_action"
  /\ colmaj' = next[Len(next)].saved.colmaj
  /\ rowmaj' = next[Len(next)].saved.rowmaj
  /\ hinrow' = next[Len(next)].saved.hinrow
  /\ rlo' = next[Len(next)].saved.rlo
  /\ rup' = next[Len(next)].saved.rup
  /\ cost' = next[Len(next)].saved.cost
  /\ dobias' = next[Len(next)].saved.dobias
  /\ next' = SubSeq(next, 1, Len(next) - 1)
  /\ UNCHANGED <<pc, iLook, clo, cup, integerType, scanVars, postVars, look,
                 fill_level, orig, redObj, implied_free, actions, isolated_row>>

-----------------------------------------------------------------------------
(* The caller solves the reduced problem and undoes the later actions of the
   chain; the values below are those the columns have when the postsolve of
   this pass starts *)

MaxVal == 2
SolVals == {Num(i) : i \in -1 .. MaxVal}
\* the reduced cost and the status the solver reports for a column
DualVals == {<<Zero, "basic">>, <<Num(1), "atLowerBound">>, <<Num(-1), "atUpperBound">>}

Eliminated(j) == \E k \in 1 .. Len(actions) : actions[k].col = j

RECURSIVE Dot(_, _, _)
\* sum of coeff * x[col] over the first n entries
Dot(ents, n, x) ==
  IF n = 0 THEN Zero
  ELSE NAdd(Dot(ents, n - 1, x), NMul(ents[n][2], x[ents[n][1]]))

RECURSIVE SumOver(_, _)
SumOver(S, g) ==
  IF S = {} THEN Zero
  ELSE LET j == CHOOSE j \in S : TRUE IN NAdd(g[j], SumOver(S \ {j}, g))

Objective(c, x) == SumOver(Cols, [j \in Cols |-> NMul(c[j], x[j])])

ReducedFeasible(x) ==
  /\ \A j \in Cols : ~Eliminated(j) => NLe(clo[j], x[j]) /\ NLe(x[j], cup[j])
  /\ \A r \in Rows : hinrow[r] > 0 =>
        LET a == Dot(rowmaj[r], hinrow[r], x)
        IN  NLe(rlo[r], a) /\ NLe(a, rup[r])

SupplySolution ==
  /\ pc = "solve"
  /\ next[Len(next)].name = "implied_free_action"
  /\ \E x \in [Cols -> SolVals], d \in DualVals :
        /\ \A j \in Cols : Eliminated(j) => x[j] = Zero
        /\ ReducedFeasible(x)
        /\ sol' = x
        /\ rcosts' = [j \in Cols |-> IF Eliminated(j) THEN Zero ELSE d[1]]
        /\ colstat' = [j \in Cols |-> IF Eliminated(j) THEN "basic" ELSE d[2]]
        /\ acts' = [r \in Rows |-> IF hinrow[r] > 0 THEN Dot(rowmaj[r], hinrow[r], x)
                                   ELSE Zero]
        /\ redObj' = Objective(cost, x)
  /\ pc' = "post"
  /\ f' = Len(actions)
  /\ UNCHANGED <<iLook, problemVars, scanVars, implied_free, actions, dobias,
                 isolated_row, rowduals, rowstat, look, fill_level, orig, next>>

-----------------------------------------------------------------------------
(* postsolve: lines 596-829, one Action per step *)

\* prob->maxmin_: the problem is a minimisation
maxmin == Num(1)

ActionHas(a, jcol) == \E k \in 1 .. a.ninrow : a.rowcols[k] = jcol
ActionPos(a, jcol) == CHOOSE k \in 1 .. a.ninrow : a.rowcols[k] = jcol

\* lines 646-649 left out: the costs stay as presolve left them
RestoredCostKept(a) == cost

\* lines 646-649: the saved costs come back
RestoredCost(a) ==
  IF a.hasCosts
  THEN [jcol \in Cols |-> IF ActionHas(a, jcol) THEN a.costs[ActionPos(a, jcol)]
                          ELSE cost[jcol]]
  ELSE cost

RcostsAfterRestore(a) ==
  IF a.hasCosts
  THEN [jcol \in Cols |->
          IF ActionHas(a, jcol)
          THEN NAdd(rcosts[jcol],
                    NMul(maxmin, NSub(a.costs[ActionPos(a, jcol)], cost[jcol])))
          ELSE rcosts[jcol]]
  ELSE rcosts

\* lines 650-671: the coefficients of the row go back at the head of their
\* columns; the eliminated column holds this one entry
ReinsertedCols(a) ==
  [jcol \in Cols |->
     IF ~ActionHas(a, jcol) THEN colmaj[jcol]
     ELSE LET e == <<a.row, a.rowels[ActionPos(a, jcol)]>>
          IN  IF jcol = a.col THEN <<e>> ELSE <<e>> \o colmaj[jcol]]

\* lines 683-693: the activity of the other columns of the row
RECURSIVE OtherActivity(_, _)
OtherActivity(a, k) ==
  IF k = 0 THEN Zero
  ELSE IF a.rowcols[k] = a.col THEN OtherActivity(a, k - 1)
  ELSE NAdd(OtherActivity(a, k - 1), NMul(a.rowels[k], sol[a.rowcols[k]]))

\* x < y + t and x > y - t for a tolerance t > 0: a value of COIN_DBL_MAX
\* magnitude absorbs t
LtPlusTol(x, y) == IF y[1] = 0 THEN NLe(x, y) ELSE NLt(x, y)
GtMinusTol(x, y) == IF y[1] = 0 THEN NLe(y, x) ELSE NLt(y, x)

\* lines 697-714: 0 in basis, -1 at lb, +1 at ub
WhereFirst(a, act, coeff, thisCost) ==
  LET loRaw == IF IsPos(coeff) THEN NDiv(NSub(a.rlo, act), coeff)
               ELSE NDiv(NSub(a.rup, act), coeff)
      upRaw == IF IsPos(coeff) THEN NDiv(NSub(a.rup, act), coeff)
               ELSE NDiv(NSub(a.rlo, act), coeff)
      loActivity == NMax(loRaw, a.clo)
      upActivity == NMin(upRaw, a.cup)
  IN IF LtPlusTol(loActivity, a.clo) /\ ~IsNeg(thisCost) THEN -1
     ELSE IF GtMinusTol(upActivity, a.cup) /\ IsNeg(thisCost) THEN 1
     ELSE 0

\* lines 724-733 and 746-755: how far the reduced cost dj of column jcol is
\* from dual feasible
Violation(jcol, dj) ==
  IF colstat[jcol] = "basic" THEN NAbs(dj)
  ELSE IF LtPlusTol(sol[jcol], clo[jcol]) THEN NNeg(dj)
  ELSE IF GtMinusTol(sol[jcol], cup[jcol]) THEN dj
  ELSE Zero

RECURSIVE Worst(_, _, _, _)
\* lines 718-735 (dual = 0) and 738-757 (dual = possibleDual)
Worst(a, k, rc, dual) ==
  IF k = 0 THEN Zero
  ELSE IF a.rowcols[k] = a.col THEN Worst(a, k - 1, rc, dual)
  ELSE NMax(Worst(a, k - 1, rc, dual),
            Violation(a.rowcols[k],
                      NSub(rc[a.rowcols[k]], NMul(dual, a.rowels[k]))))

\* lines 716-761
WhereOf(where, worst, worst2) ==
  IF where # 0 /\ IsPos(worst) /\ NLt(worst2, worst) THEN 0 ELSE where

WhereFinal(a, act, coeff, thisCost, rc) ==
  WhereOf(WhereFirst(a, act, coeff, thisCost), Worst(a, a.ninrow, rc, Zero),
          Worst(a, a.ninrow, rc, NDiv(thisCost, coeff)))

\* lines 765-766: the row goes to its upper bound
AtUpper(a, dual) == (NLt(a.rlo, a.rup) /\ IsNeg(dual)) \/ NLt(a.rlo, NNeg(Large))

\* lines 769 and 774 without the division by the coefficient
NewSolUndivided(a, act, coeff, where, dual) ==
  IF where = 0
  THEN (IF AtUpper(a, dual) THEN NSub(a.rup, act) ELSE NSub(a.rlo, act))
  ELSE IF where < 0 THEN a.clo ELSE a.cup

\* the value given to the reinstated column: lines 769, 774, 793, 797
NewSol(a, act, coeff, where, dual) ==
  IF where = 0
  THEN (IF AtUpper(a, dual) THEN NDiv(NSub(a.rup, act), coeff)
        ELSE NDiv(NSub(a.rlo, act), coeff))
  ELSE IF where < 0 THEN a.clo ELSE a.cup

\* the activity given to the reinstated row: lines 771, 776, 799
NewAct(a, act, coeff, where, dual, x) ==
  IF where = 0 THEN (IF AtUpper(a, dual) THEN a.rup ELSE a.rlo)
  ELSE NAdd(act, NMul(x, coeff))

\* the assertions of lines 770, 775 and 800
AssertsHold(a, where, x, ract) ==
  IF where = 0 THEN NLe(a.clo, x) /\ NLe(x, a.cup)
  ELSE NLe(a.rlo, ract) /\ NLe(ract, a.rup)

\* lines 770 and 775: in the branch that makes the column basic the
\* assertion comes after the stores of rowduals[irow] and sol[icol] and
\* before those of acts[irow], the two statuses and rcosts
StoppedByAssert(a, where, x, ract) == where = 0 /\ ~AssertsHold(a, where, x, ract)

\* lines 762-801: the stores of the replay of Action a, the reinstated
\* column getting the value x and the row the activity ract; a failed
\* assertion ends the replay with the stores made before it
PostsolveSet(a, dcost, rc1, thisCost, possibleDual, where, x, ract) ==
  /\ cost' = dcost
  /\ colmaj' = ReinsertedCols(a)
  /\ clo' = [clo EXCEPT ![a.col] = a.clo]
  /\ cup' = [cup EXCEPT ![a.col] = a.cup]
  /\ rlo' = [rlo EXCEPT ![a.row] = a.rlo]
  /\ rup' = [rup EXCEPT ![a.row] = a.rup]
  /\ sol' = [sol EXCEPT ![a.col] = x]
  /\ rowduals' = [rowduals EXCEPT ![a.row] = IF where = 0 THEN possibleDual ELSE Zero]
  /\ acts' = IF StoppedByAssert(a, where, x, ract) THEN acts
             ELSE [acts EXCEPT ![a.row] = ract]
  /\ rcosts' = IF StoppedByAssert(a, where, x, ract) THEN rc1
               ELSE IF where = 0
               THEN [jcol \in Cols |->
                       IF jcol = a.col THEN Zero
                       ELSE IF ActionHas(a, jcol)
                       THEN NSub(rc1[jcol],
                                 NMul(possibleDual, a.rowels[ActionPos(a, jcol)]))
                       ELSE rc1[jcol]]
               ELSE [rc1 EXCEPT ![a.col] = thisCost]
  /\ colstat' = IF StoppedByAssert(a, where, x, ract) THEN colstat
                ELSE [colstat EXCEPT ![a.col] = IF where = 0 THEN "basic"
                                                 ELSE IF where < 0 THEN "atLowerBound"
                                                 ELSE "atUpperBound"]
  /\ rowstat' = IF StoppedByAssert(a, where, x, ract) THEN rowstat
                ELSE [rowstat EXCEPT ![a.row] = IF where # 0 THEN "basic"
                                                 ELSE IF AtUpper(a, possibleDual)
                                                 THEN "atUpperBound"
                                                 ELSE "atLowerBound"]
  /\ IF ~AssertsHold(a, where, x, ract) THEN pc' = "abort" /\ f' = f
     ELSE IF f > 1 THEN pc' = "post" /\ f' = f - 1
     ELSE pc' = "done" /\ f' = 0

PostsolveSol(a, dcost, rc1, coeff, act, thisCost, possibleDual, where, x) ==
  PostsolveSet(a, dcost, rc1, thisCost, possibleDual, where, x,
               NewAct(a, act, coeff, where, possibleDual, x))

PostsolveWhere(a, dcost, rc1, coeff, act, thisCost, possibleDual, where) ==
  PostsolveSol(a, dcost, rc1, coeff, act, thisCost, possibleDual, where,
               NewSol(a, act, coeff, where, possibleDual))

\* line 696: thisCost = maxmin*dcost[icol]
PostsolveCost(a, dcost, rc1, coeff, act, thisCost) ==
  PostsolveWhere(a, dcost, rc1, coeff, act, thisCost, NDiv(thisCost, coeff),
                 WhereFinal(a, act, coeff, thisCost, rc1))

PostsolveRow(a, dcost, rc1, coeff, act) ==
  PostsolveCost(a, dcost, rc1, coeff, act, NMul(maxmin, dcost[a.col]))

PostsolveOf(a) ==
  PostsolveRow(a, RestoredCost(a), RcostsAfterRestore(a),
               a.rowels[ActionPos(a, a.col)], OtherActivity(a, a.ninrow))

PostsolveAction ==
  /\ pc = "post"
  /\ PostsolveOf(actions[f])
  /\ UNCHANGED <<iLook, rowmaj, hinrow, integerType, scanVars, implied_free, actions,
                 dobias, isolated_row, fixedVars>>

-----------------------------------------------------------------------------
(* The problems handed to presolve *)

MaxRhs == 2
\* a right-hand side no row of bounded columns can reach
FarRhs == 5

E(r, c) == <<r, Num(c)>>

\* the columns: their entries in column-major order
ColTypes1 == { << E(1, 2) >>,
               << E(1, 1), E(2, 1) >>, << E(2, -1), E(1, 1) >>,
               << E(1, 1), E(2, 16), E(3, 1) >> }
ColTypes2 == { << E(1, 1) >>, << E(2, 1) >>, << E(1, 1), E(2, 1) >>,
               << E(1, -1), E(2, 1), E(3, 1) >> }
ColTypes3 == { << E(2, 1), E(3, 1) >>, << E(1, 1), E(2, 1) >>,
               << E(1, 1), E(3, -1) >>, << E(1, 1), E(2, 1), E(3, 1) >> }

\* column bounds: [0, MaxVal], [0, inf), free, and free with 1e30 for infinity
Bounded == <<Zero, Num(MaxVal)>>
NonNeg == <<Zero, DblMax>>
Free == <<NNeg(DblMax), DblMax>>
Free30 == <<NNeg(Inf30), Inf30>>
ColBounds1 == { Bounded, NonNeg, Free }
ColBounds2 == { Bounded, Free, Free30 }
ColBounds3 == { Bounded, NonNeg }

\* row bounds: equalities, <= and ranges
RowBounds1 == { <<Num(MaxRhs), Num(MaxRhs)>>, <<Num(FarRhs), Num(FarRhs)>> }
RowBounds2 == { <<Num(MaxRhs), Num(MaxRhs)>>, <<NNeg(DblMax), Num(MaxRhs)>>,
                <<Zero, Num(MaxRhs)>>, <<NNeg(Inf30), Num(MaxRhs)>> }
RowBounds3 == { <<Zero, Num(MaxRhs)>> }

Costs == { <<Zero, Zero, Zero>>, <<Num(1), Zero, Zero>>, <<Num(1), Num(1), Zero>> }

Looks == { <<3, 2, 1>>, <<2, 1>> }
AllCols == <<1, 2, 3>>

RECURSIVE RowOf(_, _, _)
\* the row-major entries of row r, built from the columns j .. ncols
RowOf(cm, r, j) ==
  IF j > Cardinality(Cols) THEN <<>>
  ELSE LET k == FindRow(cm[j], r, 1)
       IN  IF k = 0 THEN RowOf(cm, r, j + 1)
           ELSE << <<j, cm[j][k][2]>> >> \o RowOf(cm, r, j + 1)

Init ==
  /\ pc = "scan"
  /\ iLook = 1
  /\ \/ fill_level = -1 /\ look = AllCols
     \/ fill_level = 0 /\ look \in Looks
  /\ \E t1 \in ColTypes1, t2 \in ColTypes2, t3 \in ColTypes3 :
        colmaj = <<t1, t2, t3>>
  /\ rowmaj = [r \in Rows |-> RowOf(colmaj, r, 1)]
  /\ hinrow = [r \in Rows |-> Len(rowmaj[r])]
  /\ \E b1 \in ColBounds1, b2 \in ColBounds2, b3 \in ColBounds3 :
        /\ clo = <<b1[1], b2[1], b3[1]>>
        /\ cup = <<b1[2], b2[2], b3[2]>>
  /\ \E b1 \in RowBounds1, b2 \in RowBounds2, b3 \in RowBounds3 :
        /\ rlo = <<b1[1], b2[1], b3[1]>>
        /\ rup = <<b1[2], b2[2], b3[2]>>
  /\ cost \in Costs
  /\ integerType = [j \in Cols |-> FALSE]
  /\ implied_free = [j \in Cols |-> NoRow]
  /\ infiniteUp = [r \in Rows |-> IF hinrow[r] > 1 THEN -1 ELSE -2]
  /\ infiniteDown = [r \in Rows |-> 0]
  /\ maxUp = [r \in Rows |-> Zero]
  /\ maxDown = [r \in Rows |-> Zero]
  /\ status_ = 0
  /\ actions = <<>>
  /\ dobias = Zero
  /\ isolated_row = NoRow
  /\ sol = [j \in Cols |-> Zero]
  /\ acts = [r \in Rows |-> Zero]
  /\ rcosts = [j \in Cols |-> Zero]
  /\ rowduals = [r \in Rows |-> Zero]
  /\ colstat = [j \in Cols |-> "basic"]
  /\ rowstat = [r \in Rows |-> "basic"]
  /\ f = 0
  /\ redObj = Zero
  /\ next = <<>>
  /\ orig = [cost |-> cost, clo |-> clo, cup |-> cup, rlo |-> rlo, rup |-> rup,
             colmaj |-> colmaj, rowmaj |-> rowmaj, hinrow |-> hinrow]

Next ==
  \/ ScanMulti
  \/ ScanSingleton
  \/ ScanSkip
  \/ Eliminate
  \/ ElimIsolated
  \/ ElimSkip
  \/ FinishPresolve
  \/ UndoLater
  \/ SupplySolution
  \/ PostsolveAction

Spec == Init /\ [][Next]_vars

-----------------------------------------------------------------------------
(* Claims *)

\* the column whose turn it is in the scan has its rows walked
Walking == pc = "scan" /\ WalksRows(look[iLook])

\* the walk of the column whose turn it is met a row in the give-up state
\* or found a row infeasible
WalkMetGiveUp == WalkColumn(look[iLook]).gaveUp \/ WalkColumn(look[iLook]).infeas

\* C2: a column with 2-3 nonzeros whose walk meets a row in the give-up
\* state (redundant, consumed) or finds a row infeasible is not classified:
\* implied_free[j] is still -1 after its scan.
C2_NoAcceptAfterGiveUp ==
  [][(Walking /\ WalkMetGiveUp) => implied_free'[look[iLook]] = NoRow]_vars

\* C3: no two columns are mapped to the same defining row.
C3_RowConsumedOnce ==
  \A j1 \in Cols, j2 \in Cols :
     (j1 # j2 /\ implied_free[j1] # NoRow) => implied_free[j1] # implied_free[j2]

\* the column whose turn it is in the elimination loop is eliminated, it
\* has a nonzero cost and its row is an equality
ElimCol == look[iLook]
ElimRow == colmaj[ElimCol][1][1]
EliminatingWithCost ==
  /\ pc = "elim" /\ Easy(ElimCol) /\ ~IsolatedRow(ElimRow)
  /\ nonzero_cost(ElimCol, ElimRow)

\* the assignments that satisfy the row being eliminated
OnRow(x) == Dot(rowmaj[ElimRow], hinrow[ElimRow], x) = rlo[ElimRow]

\* the objective with the bias, before and after the step, is the same on
\* every assignment that satisfies the eliminated row
ObjectiveKept ==
  \A x \in [Cols -> SolVals] :
     OnRow(x) => NAdd(Objective(cost, x), dobias) = NAdd(Objective(cost', x), dobias')

\* the costs of the row are changed as the claim says
CostsSpread ==
  /\ cost'[ElimCol] = Zero
  /\ dobias' = NAdd(dobias, NDiv(NMul(cost[ElimCol], rlo[ElimRow]), colmaj[ElimCol][1][2]))
  /\ \A k \in Cols :
       (k # ElimCol /\ InRow(ElimRow, k)) =>
          cost'[k] = NAdd(cost[k], NMul(cost[ElimCol],
                                        NDiv(NNeg(CoeffInRow(ElimRow, k)),
                                             colmaj[ElimCol][1][2])))


\* each elimination through an equality row conserves objective plus bias
C4_StepConserves == [][EliminatingWithCost => (CostsSpread /\ ObjectiveKept)]_vars

\* after the pass every eliminated column has cost 0
EliminatedCostZero ==
  pc \in {"finish", "solve"} =>
     \A k \in 1 .. Len(actions) : cost[actions[k].col] = Zero

\* C4: eliminating a column with nonzero cost through an equality row
\* spreads its cost over the row and adds the constant to the bias, so that
\* objective plus bias is kept on every assignment satisfying the row; after
\* the pass every eliminated column has cost 0.
C4_CostConservation ==
  [][/\ EliminatingWithCost => (CostsSpread /\ ObjectiveKept)
     /\ EliminatedCostZero']_vars

\* the problem handed to presolve has a feasible point
OrigFeasible ==
  \E x \in [Cols -> SolVals] :
     /\ \A j \in Cols : NLe(orig.clo[j], x[j]) /\ NLe(x[j], orig.cup[j])
     /\ \A r \in Rows : orig.hinrow[r] > 0 =>
           /\ NLe(orig.rlo[r], Dot(orig.rowmaj[r], orig.hinrow[r], x))
           /\ NLe(Dot(orig.rowmaj[r], orig.hinrow[r], x), orig.rup[r])

\* postsolve has ended, by replaying every Action or on a failed assertion
Replayed ==
  fill_level = 0 /\ OrigFeasible /\ Len(actions) > 0 /\ pc \in {"done", "abort"}

\* every reinstated column and row is within its saved bounds
Reinstated ==
  \A k \in 1 .. Len(actions) :
     /\ NLe(actions[k].clo, sol[actions[k].col])
     /\ NLe(sol[actions[k].col], actions[k].cup)
     /\ NLe(actions[k].rlo, acts[actions[k].row])
     /\ NLe(acts[actions[k].row], actions[k].rup)

ObjectiveRecovered == Objective(orig.cost, sol) = NAdd(redObj, dobias)

\* C1: round trip: after presolve, a feasible reduced solution and
\* postsolve, no assertion has failed, every reinstated column and row is
\* within its saved bounds and the original objective at the reconstructed
\* solution is the reduced objective plus the bias.
C1_RoundTrip ==
  Replayed => (pc = "done" /\ Reinstated /\ ObjectiveRecovered)

\* some row of j may define it: an equality row whose coefficient is above
\* a tenth of the largest coefficient of j
HasEligibleRow(j) ==
  \E k \in 1 .. hincol(j) : Eligible(j, k, PreScan(j, 1).largestElement)

\* the walk w of column j ends with the implied range inside the declared
\* bounds of j
ImpliedInsideDeclared(j, w) == NLe(clo[j], w.low) /\ NLe(w.high, cup[j])

\* the walk w of column j ends with the declared bounds of j inside the
\* implied range
DeclaredInsideImplied(j, w) == NLe(w.low, clo[j]) /\ NLe(cup[j], w.high)

\* C5 as stated: a column with 2-3 nonzeros is accepted exactly when its
\* declared lower bound is >= low and its declared upper bound is <= high.
C5_AcceptsDeclaredInside ==
  [][Walking =>
       (implied_free'[look[iLook]] # NoRow
          <=> DeclaredInsideImplied(look[iLook], WalkColumn(look[iLook])))]_vars

\* C5 amended: a column with 2-3 nonzeros whose rows are walked is accepted
\* exactly when its declared lower bound is <= low, high is <= its declared
\* upper bound, low and high being the values the walk ends with, and some
\* equality row touching it has a coefficient above a tenth of its largest.
C5_AcceptsImpliedInside ==
  [][Walking =>
       (implied_free'[look[iLook]] # NoRow
          <=> (/\ ImpliedInsideDeclared(look[iLook], WalkColumn(look[iLook]))
               /\ HasEligibleRow(look[iLook])))]_vars

\* a column with 2-3 nonzeros and finite declared bounds has been accepted
C5_Accepted ==
  /\ pc \in {"scan", "elim"} /\ Len(actions) = 0
  /\ \E j \in Cols :
        /\ hincol(j) >= 2 /\ implied_free[j] # NoRow
        /\ clo[j] = Zero /\ cup[j] = Num(MaxVal)

\* column j was a singleton when the pass began
OrigSingleton(j) == Len(orig.colmaj[j]) = 1

\* the scan is at a singleton column with a nonzero coefficient in an
\* equality row of at least 2 nonzeros that is not consumed, and the
\* declared bounds of the column contain the range the row implies for it
SingletonCase ==
  /\ pc = "scan"
  /\ Candidate(look[iLook]) /\ hincol(look[iLook]) = 1
  /\ colmaj[look[iLook]][1][2] # Zero
  /\ infiniteUp[colmaj[look[iLook]][1][1]] # -3
  /\ IsEquality(colmaj[look[iLook]][1][1])
  /\ hinrow[colmaj[look[iLook]][1][1]] >= 2
  /\ SingletonAccepts(look[iLook])

SingletonClassified ==
  SingletonCase => implied_free'[look[iLook]] = colmaj[look[iLook]][1][1]

\* the elimination loop is at a classified singleton column whose row is
\* not isolated
SingletonTurn ==
  /\ pc = "elim" /\ OrigSingleton(ElimCol) /\ Easy(ElimCol)
  /\ ~IsolatedRow(ElimRow)

SingletonEliminated ==
  SingletonTurn =>
     /\ Len(actions') = Len(actions) + 1
     /\ actions'[Len(actions')].row = ElimRow
     /\ actions'[Len(actions')].col = ElimCol
     /\ Len(colmaj'[ElimCol]) = 0
     /\ hinrow'[ElimRow] = 0

RECURSIVE OthersValue(_, _)
\* the sum of coeff * value over the columns of the saved row other than
\* the eliminated one
OthersValue(a, k) ==
  IF k = 0 THEN Zero
  ELSE IF a.rowcols[k] = a.col THEN OthersValue(a, k - 1)
  ELSE NAdd(OthersValue(a, k - 1), NMul(a.rowels[k], sol[a.rowcols[k]]))

\* postsolve replays the Action of a singleton column of an equality row
SingletonReplay ==
  /\ pc = "post" /\ OrigSingleton(actions[f].col)
  /\ actions[f].rlo = actions[f].rup

SingletonRecomputed ==
  SingletonReplay =>
     sol'[actions[f].col] =
        NDiv(NSub(actions[f].rlo, OthersValue(actions[f], actions[f].ninrow)),
             actions[f].rowels[ActionPos(actions[f], actions[f].col)])

\* when presolve returns, no singleton column classified through an
\* equality row is left without its Action
NoSingletonLeft ==
  pc = "finish" =>
     \A j \in Cols :
        (/\ OrigSingleton(j) /\ implied_free[j] # NoRow
         /\ orig.rlo[implied_free[j]] = orig.rup[implied_free[j]]) => Eliminated(j)

SingletonClassifiedAndConsumed ==
  (SingletonCase /\ ~SingletonInfeasible(look[iLook])) =>
     /\ implied_free'[look[iLook]] = colmaj[look[iLook]][1][1]
     /\ infiniteUp'[colmaj[look[iLook]][1][1]] = -3

\* the elimination loop is at a classified singleton column that still has
\* its entry, and every column of its row is a singleton
IsolatedTurn ==
  /\ pc = "elim" /\ OrigSingleton(ElimCol) /\ Easy(ElimCol)
  /\ IsolatedRow(ElimRow)

\* the isolated row ends the loop: no Action, nothing leaves the matrix
IsolatedEndsLoop ==
  IsolatedTurn =>
     /\ pc' = "finish"
     /\ isolated_row' = ElimRow
     /\ actions' = actions
     /\ colmaj' = colmaj /\ hinrow' = hinrow

\* when presolve finishes the isolated row is passed, with the chain, to the
\* isolated-constraint handler
IsolatedHandedOver ==
  (pc = "finish" /\ isolated_row # NoRow) =>
     \E o \in isolated_constraint_action_presolve(Prob, isolated_row,
                                                   ChainWithActions) :
        [prob |-> Prob', next |-> next'] \in SubstStep(o)

\* (rhs - sum of the others) / coeff for the column of Action a
RowValue(a) ==
  NDiv(NSub(a.rlo, OthersValue(a, a.ninrow)), a.rowels[ActionPos(a, a.col)])

\* postsolve gives the column that value when it is within the saved bounds
\* of the column
SingletonRecomputedInBounds ==
  (/\ SingletonReplay
   /\ NLe(actions[f].clo, RowValue(actions[f]))
   /\ NLe(RowValue(actions[f]), actions[f].cup)) =>
     sol'[actions[f].col] = RowValue(actions[f])

WalkFindsInfeasible == Walking /\ WalkColumn(look[iLook]).infeas
SingletonFindsInfeasible ==
  /\ pc = "scan"
  /\ Candidate(look[iLook]) /\ hincol(look[iLook]) = 1
  /\ SingletonTried(look[iLook]) /\ SingletonInfeasible(look[iLook])
InfeasibleFound == WalkFindsInfeasible \/ SingletonFindsInfeasible

\* bit 1 of the status is set by the detection and stays set
StatusSticky ==
  /\ InfeasibleFound => status_' = 1
  /\ status_ = 1 => status_' = 1

\* the detection ends the examination of the column only: the scan goes on
\* with the next worklist column
ScanGoesOn ==
  (InfeasibleFound /\ iLook < Len(look)) => (pc' = "scan" /\ iLook' = iLook + 1)

\* nothing recorded before the detection is taken back by it
NothingRolledBack ==
  InfeasibleFound =>
     /\ actions' = actions
     /\ \A j \in Cols : (j # look[iLook] /\ implied_free[j] # NoRow) =>
                           implied_free'[j] = implied_free[j]

\* C7: a row found infeasible by the scan of column j sets bit 1 of the
\* status, which stays set; only the examination of j is cut short, so the
\* remaining worklist columns are still scanned, and nothing classified
\* before is rolled back.
C7_InfeasibilityLocal ==
  [][StatusSticky /\ ScanGoesOn /\ NothingRolledBack]_vars

\* the number of entries of row in the column-major storage of column jcol
\* that hold the coefficient v
EntriesOf(jcol, row, v) ==
  Cardinality({p \in 1 .. Len(colmaj[jcol]) : colmaj[jcol][p] = <<row, v>>})

\* the bounds of the column and of the row of Action a are those of before
\* the pass, and every saved pair of the row is stored once
ActionUndone(a) ==
  /\ clo[a.col] = orig.clo[a.col] /\ cup[a.col] = orig.cup[a.col]
  /\ rlo[a.row] = orig.rlo[a.row] /\ rup[a.row] = orig.rup[a.row]
  /\ \A i \in 1 .. a.ninrow : EntriesOf(a.rowcols[i], a.row, a.rowels[i]) = 1
  /\ \A i \in 1 .. a.ninrow :
        Cardinality({p \in 1 .. Len(colmaj[a.rowcols[i]]) :
                        colmaj[a.rowcols[i]][p][1] = a.row}) = 1

\* after the full replay of a pass that recorded Actions everything is as
\* before the pass
AllUndone ==
  (pc = "done" /\ Len(actions) > 0) =>
     /\ cost = orig.cost
     /\ \A k \in 1 .. Len(actions) : ActionUndone(actions[k])

\* postsolve takes the Actions one at a time from the last to the first
ReplayedInReverse ==
  /\ (pc = "solve" /\ pc' = "post") => f' = Len(actions)
  /\ (pc = "post" /\ pc' = "post") => f' = f - 1
  /\ (pc = "post" /\ pc' = "done") => (f = 1 /\ f' = 0)
  /\ pc = "post" =>
        /\ actions' = actions
        /\ clo'[actions[f].col] = actions[f].clo
        /\ rlo'[actions[f].row] = actions[f].rlo

\* C8: postsolve replays every Action once, in the reverse of the order of
\* presolve, and after the full replay the bounds of every eliminated column
\* and row, the saved entries of every eliminated row and the cost of every
\* column are those of before the pass.
C8_UndoRoundTrip == [][ReplayedInReverse /\ AllUndone']_vars

\* a full replay has ended in which two Actions changed the cost of one
\* column
C8_TwoCostActionsUndone ==
  /\ pc = "done"
  /\ \E k1, k2 \in 1 .. Len(actions) :
        /\ k1 < k2 /\ actions[k1].hasCosts /\ actions[k2].hasCosts
        /\ \E j \in Cols : /\ j # actions[k1].col /\ j # actions[k2].col
                           /\ ActionHas(actions[k1], j) /\ ActionHas(actions[k2], j)

\* the largest coefficient magnitude of column j
LargestOf(j) ==
  CHOOSE v \in {NAbs(colmaj[j][k][2]) : k \in 1 .. hincol(j)} :
     \A k \in 1 .. hincol(j) : NLe(NAbs(colmaj[j][k][2]), v)

\* the entry at position k of column j is in an equality row and its
\* magnitude is above 10% of the largest of the column
Significant(j, k) ==
  /\ rlo[colmaj[j][k][1]] = rup[colmaj[j][k][1]]
  /\ NLt(NDiv(LargestOf(j), Num(10)), NAbs(colmaj[j][k][2]))

\* row r is a defining row of column j with the fewest nonzeros
Minimal(j, r) ==
  /\ \E k \in 1 .. hincol(j) : colmaj[j][k][1] = r /\ Significant(j, k)
  /\ \A k \in 1 .. hincol(j) : Significant(j, k) => hinrow[r] <= hinrow[colmaj[j][k][1]]

\* C9: the defining row recorded for an accepted column with 2-3 nonzeros is
\* an equality row touching it with a coefficient above 10% of its largest,
\* and no other such row has strictly fewer nonzeros.
C9_DefiningRowMinimal ==
  [][(Walking /\ implied_free'[look[iLook]] # NoRow)
        => Minimal(look[iLook], implied_free'[look[iLook]])]_vars

\* a column has been accepted that has a larger equality row than its
\* defining row and an equality row with a coefficient below the 10%
C9_Chosen ==
  /\ pc \in {"scan", "elim"} /\ Len(actions) = 0
  /\ \E j \in Cols :
        /\ hincol(j) >= 2 /\ implied_free[j] # NoRow
        /\ \E k \in 1 .. hincol(j) :
              /\ rlo[colmaj[j][k][1]] = rup[colmaj[j][k][1]]
              /\ \/ hinrow[colmaj[j][k][1]] > hinrow[implied_free[j]]
                 \/ ~Significant(j, k)

\* the walk w of the column stored the figures of every tightening in the
\* cached summary of the row
CacheHolds(w) ==
  \A i \in 1 .. Len(w.locals) :
     w.locals[i][2].tight =>
        /\ maxUp'[w.locals[i][1]] = w.locals[i][2].maximumUp
        /\ maxDown'[w.locals[i][1]] = w.locals[i][2].maximumDown
        /\ infiniteDown'[w.locals[i][1]] = w.locals[i][2].infiniteLower

\* C10: whenever the walk of column j derives from row r a tighter bound,
\* the cached summary of r is updated with the adjustment, so that later
\* columns compute from the tightened figures.
C10_CacheUpdatedInPlace ==
  [][Walking => CacheHolds(WalkColumn(look[iLook]))]_vars

\* the classification of a row from the finite sums, the counts and the row
\* bounds alone: a side with a nonzero count is unbounded, a row bound of
\* magnitude >= 1e20 is no bound
ReferenceClass(row, a) ==
  IF /\ \/ NLe(Large, rup[row])
        \/ a.infiniteUpper = 0 /\ NLe(a.maximumUp, rup[row])
     /\ \/ NLe(rlo[row], NNeg(Large))
        \/ a.infiniteLower = 0 /\ NLe(rlo[row], a.maximumDown)
  THEN "redundant"
  ELSE IF \/ /\ NLt(NNeg(Large), rlo[row]) /\ a.infiniteUpper = 0
             /\ NLt(a.maximumUp, rlo[row])
          \/ /\ NLt(rup[row], Large) /\ a.infiniteLower = 0
             /\ NLt(rup[row], a.maximumDown)
  THEN "infeasible"
  ELSE "cache"

\* the walk of the column whose turn it is computes the summary of the
\* first row of the column
ComputesFirstRow == Walking /\ infiniteUp[colmaj[look[iLook]][1][1]] = -1

\* C11: the classification of a row as redundant, infeasible or cached
\* depends only on the finite sums, the infinite counts and the row bounds
\* (a bound of magnitude >= 1e20 being infinite), not on the count * 1e31
\* magnitude.
C11_CountsGateClassification ==
  ComputesFirstRow =>
     RowClass(colmaj[look[iLook]][1][1])
        = ReferenceClass(colmaj[look[iLook]][1][1],
                         RowActivity(colmaj[look[iLook]][1][1]))

\* the same, for rows whose infinite bounds are all COIN_DBL_MAX
C11_WithDblMax ==
  (/\ ComputesFirstRow
   /\ rlo[colmaj[look[iLook]][1][1]] # NNeg(Inf30)) =>
     RowClass(colmaj[look[iLook]][1][1])
        = ReferenceClass(colmaj[look[iLook]][1][1],
                         RowActivity(colmaj[look[iLook]][1][1]))

\* the elimination loop is about to record an Action for the column whose
\* turn it is
Eliminating == pc = "elim" /\ Easy(ElimCol) /\ ~IsolatedRow(ElimRow)

\* C12: the elimination loop only eliminates columns that were singleton when
\* scanned, through the row the scan recorded for them; a column that had 2-3
\* nonzeros when scanned and became a singleton because earlier eliminations
\* dropped its other rows is not eliminated.
C12_OnlyScannedSingletons ==
  Eliminating => /\ OrigSingleton(ElimCol)
                 /\ implied_free[ElimCol] = ElimRow

\* the part of it about the row: an eliminated column leaves through the row
\* the scan recorded for it
C12_ThroughRecordedRow == Eliminating => implied_free[ElimCol] = ElimRow

\* a column other than j contributes an unbounded term to the maximum of row
OthersUnboundedUp(j, row) ==
  \E k \in 1 .. hinrow[row] :
     /\ rowmaj[row][k][1] # j
     /\ \/ IsPos(rowmaj[row][k][2]) /\ NLe(Large, cup[rowmaj[row][k][1]])
        \/ IsNeg(rowmaj[row][k][2]) /\ NLe(clo[rowmaj[row][k][1]], NNeg(Large))

\* a column other than j contributes an unbounded term to the minimum of row
OthersUnboundedDown(j, row) ==
  \E k \in 1 .. hinrow[row] :
     /\ rowmaj[row][k][1] # j
     /\ \/ IsPos(rowmaj[row][k][2]) /\ NLe(clo[rowmaj[row][k][1]], NNeg(Large))
        \/ IsNeg(rowmaj[row][k][2]) /\ NLe(Large, cup[rowmaj[row][k][1]])

\* the side of the row a lower (upper) bound of j is derived from
LowSideUnbounded(j, row) ==
  IF IsPos(CoeffInRow(row, j)) THEN OthersUnboundedUp(j, row)
  ELSE OthersUnboundedDown(j, row)
HighSideUnbounded(j, row) ==
  IF IsPos(CoeffInRow(row, j)) THEN OthersUnboundedDown(j, row)
  ELSE OthersUnboundedUp(j, row)

Finite(x) == NLt(NNeg(Large), x) /\ NLt(x, Large)

\* the candidate bounds of j from row alone, with the summaries the walk w used
CandidateOf(j, row, w) ==
  BoundStep(j, row, CoeffInRow(row, j), NNeg(DblMax), DblMax,
            w.iU, w.iD, w.mU, w.mD)

\* the candidates of every row the walk derived bounds from are unbounded
\* when another column is unbounded on the side used, and finite only
\* when none is
CandidatesExact(j, w) ==
  \A i \in 1 .. Len(w.locals) :
     /\ LowSideUnbounded(j, w.locals[i][1]) =>
           CandidateOf(j, w.locals[i][1], w).low = NNeg(DblMax)
     /\ HighSideUnbounded(j, w.locals[i][1]) =>
           CandidateOf(j, w.locals[i][1], w).high = DblMax
     /\ Finite(CandidateOf(j, w.locals[i][1], w).low) =>
           ~LowSideUnbounded(j, w.locals[i][1])
     /\ Finite(CandidateOf(j, w.locals[i][1], w).high) =>
           ~HighSideUnbounded(j, w.locals[i][1])

\* x keeps the columns other than j within their bounds
KeepsOthers(j, x) ==
  \A c \in Cols \ {j} : NLe(clo[c], x[c]) /\ NLe(x[c], cup[c])

\* the activity v satisfies row
Within(row, v) == NLe(rlo[row], v) /\ NLe(v, rup[row])

\* x satisfies the first n rows the walk derived bounds from
SatisfiesWalked(x, w, n) ==
  \A i \in 1 .. n :
     Within(w.locals[i][1],
            Dot(rowmaj[w.locals[i][1]], hinrow[w.locals[i][1]], x))

\* low and high after each row of the derivation enclose x_j
BoundsSound(j, w) ==
  \A x \in [Cols -> SolVals] :
     (Len(w.locals) > 0 /\ KeepsOthers(j, x)) =>
        \A n \in 1 .. Len(w.locals) :
           SatisfiesWalked(x, w, n) =>
              /\ NLe(w.locals[n][2].low, x[j])
              /\ NLe(x[j], w.locals[n][2].high)

\* low and high before row n of the derivation
LowBefore(w, n) == IF n = 1 THEN NNeg(DblMax) ELSE w.locals[n - 1][2].low
HighBefore(w, n) == IF n = 1 THEN DblMax ELSE w.locals[n - 1][2].high

\* from row to row of the derivation low only increases and high only
\* decreases
DerivationMonotone(w) ==
  \A n \in 1 .. Len(w.locals) :
     /\ NLe(LowBefore(w, n), w.locals[n][2].low)
     /\ NLe(w.locals[n][2].high, HighBefore(w, n))

\* the walk ends with the low and high it had after the last row
EndsWhereDerived(w) ==
  /\ w.low = LowBefore(w, Len(w.locals) + 1)
  /\ w.high = HighBefore(w, Len(w.locals) + 1)

\* the walk ends with both bounds unbounded when it gave up, and with the
\* low and high of its last row otherwise
EndsAsGivenUp(w) ==
  IF w.gaveUp THEN w.low = NNeg(DblMax) /\ w.high = DblMax
  ELSE EndsWhereDerived(w)

DerivationExactSound(j, w) ==
  CandidatesExact(j, w) /\ BoundsSound(j, w) /\ DerivationMonotone(w)

\* C13 (as stated): the candidates are exact about unbounded sides, low and
\* high are sound, and during the whole walk low only increases and high
\* only decreases.
C13_MonotoneWholeWalk ==
  Walking => /\ EndsWhereDerived(WalkColumn(look[iLook]))
             /\ DerivationExactSound(look[iLook], WalkColumn(look[iLook]))

\* C13 (amended): the candidates are exact about unbounded sides, low and
\* high are sound, and low only increases and high only decreases from row
\* to row of the derivation; a walk that gives up ends with both unbounded,
\* any other walk with the low and high of its last row.
C13_DerivationSound ==
  Walking => /\ EndsAsGivenUp(WalkColumn(look[iLook]))
             /\ DerivationExactSound(look[iLook], WalkColumn(look[iLook]))

\* a walk derived bounds from two rows or more: after one of them low and
\* high are finite, and in one of them another column is unbounded on a side
\* a bound of j is derived from
C13_Derived ==
  /\ Walking
  /\ \E n \in 1 .. Len(WalkColumn(look[iLook]).locals) :
        /\ Finite(WalkColumn(look[iLook]).locals[n][2].low)
        /\ Finite(WalkColumn(look[iLook]).locals[n][2].high)
  /\ \E n \in 1 .. Len(WalkColumn(look[iLook]).locals) :
        \/ LowSideUnbounded(look[iLook], WalkColumn(look[iLook]).locals[n][1])
        \/ HighSideUnbounded(look[iLook], WalkColumn(look[iLook]).locals[n][1])
  /\ Len(WalkColumn(look[iLook]).locals) > 1

=============================================================================
